---- MODULE Spec2Model ----
(***************************************************************************)
(* Model of excel_to_yaml_single.py: one run of main() over the rows of    *)
(* the "data" sheet.  Text is a sequence of one-character strings, so that *)
(* trimming, lower-casing, whitespace removal, quoting and the ordering of *)
(* reason texts are computed character by character as the program does.   *)
(* A cell of the sheet, read with dtype=str, is a text or the missing      *)
(* value NaN; Python's None is kept as a third tag because normalize_str   *)
(* tests for it.  The summary lines (errors_summary) are printed only and  *)
(* are not part of the state.                                              *)
(***************************************************************************)
EXTENDS Integers, Sequences, FiniteSets, TLC

\* ------------------------------------------------------------------ bounds
MaxRows == 2

\* the number of digits of an NZBN
NzbnDigits == 13

\* ------------------------------------------------------------ text helpers
\* the printable characters of code points 32..95
Ascii == <<" ","!","\"","#","$","%","&","'","(",")","*","+",",","-",".","/",
           "0","1","2","3","4","5","6","7","8","9",":",";","<","=",">","?",
           "@","A","B","C","D","E","F","G","H","I","J","K","L","M","N","O",
           "P","Q","R","S","T","U","V","W","X","Y","Z","[","\\","]","^","_">>

Upper == <<"A","B","C","D","E","F","G","H","I","J","K","L","M","N","O","P","Q","R","S","T","U","V","W","X","Y","Z">>

Lower == <<"a","b","c","d","e","f","g","h","i","j","k","l","m","n","o","p","q","r","s","t","u","v","w","x","y","z">>

Digits == <<"0","1","2","3","4","5","6","7","8","9">>

\* ord(c): the code point of a character
Ord(c) ==
  IF c = "\t" THEN 9
  ELSE IF c = "\n" THEN 10
  ELSE IF c = "\r" THEN 13
  ELSE IF \E i \in 1..Len(Lower) : Lower[i] = c
  THEN 96 + (CHOOSE i \in 1..Len(Lower) : Lower[i] = c)
  ELSE IF c \in {"{", "|", "}", "~"}
  THEN 122 + (CHOOSE i \in 1..4 : <<"{", "|", "}", "~">>[i] = c)
  ELSE 31 + (CHOOSE i \in 1..Len(Ascii) : Ascii[i] = c)

\* str.isspace / the regular expression class \s
IsSpace(c) == c \in {" ", "\t", "\n", "\r"}

\* the regular expression class \d
IsDigit(c) == \E i \in 1..Len(Digits) : Digits[i] = c

DigitVal(c) == (CHOOSE i \in 1..Len(Digits) : Digits[i] = c) - 1

LowerChar(c) ==
  IF \E i \in 1..Len(Upper) : Upper[i] = c
  THEN Lower[CHOOSE i \in 1..Len(Upper) : Upper[i] = c]
  ELSE c

\* str.lower()
ToLower(s) == [i \in 1..Len(s) |-> LowerChar(s[i])]

RECURSIVE LStrip(_)
\* str.lstrip()
LStrip(s) == IF s # <<>> /\ IsSpace(Head(s)) THEN LStrip(Tail(s)) ELSE s

RECURSIVE RStrip(_)
\* str.rstrip()
RStrip(s) ==
  IF s # <<>> /\ IsSpace(s[Len(s)]) THEN RStrip(SubSeq(s, 1, Len(s) - 1)) ELSE s

\* str.strip()
Strip(s) == RStrip(LStrip(s))

\* re.sub(r"\s+", "", s)
RemoveWs(s) == SelectSeq(s, LAMBDA c : ~IsSpace(c))

RECURSIVE Concat(_)
\* "".join(parts)
Concat(parts) == IF parts = <<>> THEN <<>> ELSE Head(parts) \o Concat(Tail(parts))

\* ' ' * n
Spaces(n) == [i \in 1..n |-> " "]

RECURSIVE StrLess(_, _)
\* a < b on Python str: lexicographic by code point
StrLess(a, b) ==
  IF b = <<>> THEN FALSE
  ELSE IF a = <<>> THEN TRUE
  ELSE IF Head(a) # Head(b) THEN Ord(Head(a)) < Ord(Head(b))
  ELSE StrLess(Tail(a), Tail(b))

RECURSIVE NatStr(_)
\* decimal digits of a natural number
NatStr(n) == IF n < 10 THEN <<Digits[n + 1]>> ELSE NatStr(n \div 10) \o <<Digits[(n % 10) + 1]>>

\* str(x) of an integer-valued float below 1e16: "100.0"
FloatStr(n) == NatStr(n) \o <<".", "0">>

\* ------------------------------------------------------------- cell values
S(t) == [tag |-> "str", s |-> t]

NaN == [tag |-> "nan", s |-> <<>>]

None == [tag |-> "none", s |-> <<>>]

\* str(x)
Str(x) == IF x.tag = "str" THEN x.s ELSE IF x.tag = "nan" THEN <<"n","a","n">> ELSE <<"N","o","n","e">>

\* bool(x): a non-empty text, or the float NaN, is true
Truthy(x) == IF x.tag = "str" THEN x.s # <<>> ELSE x.tag = "nan"

VALID_TYPES(k) ==
  IF k = <<"c","r","e","d","i","t","o","r","a","c","c","o","u","n","t">>
  THEN <<"c","r","e","d","i","t","o","r","A","c","c","o","u","n","t">>
  ELSE IF k = <<"f","o","u","r","t","h","p","a","r","t","y">>
  THEN <<"f","o","u","r","t","h","P","a","r","t","y">>
  ELSE <<>>

CreditorAccount == <<"c","r","e","d","i","t","o","r","A","c","c","o","u","n","t">>

FourthParty == <<"f","o","u","r","t","h","P","a","r","t","y">>

normalize_str(x) == IF x.tag = "none" THEN <<>> ELSE Strip(Str(x))

\* ---------------------------------------------------------- float parsing
\* digit (["_"] digit)*
DigitRun(s) ==
  /\ s # <<>>
  /\ \A i \in 1..Len(s) : IsDigit(s[i]) \/ s[i] = "_"
  /\ IsDigit(s[1]) /\ IsDigit(s[Len(s)])
  /\ \A i \in 1..(Len(s) - 1) : ~(s[i] = "_" /\ s[i + 1] = "_")

RECURSIVE DigitsVal(_)
\* the value of a digit run, underscores ignored
DigitsVal(s) ==
  IF s = <<>> THEN 0
  ELSE IF s[Len(s)] = "_" THEN DigitsVal(SubSeq(s, 1, Len(s) - 1))
  ELSE 10 * DigitsVal(SubSeq(s, 1, Len(s) - 1)) + DigitVal(s[Len(s)])

RECURSIVE Pow10(_)
Pow10(n) == IF n <= 0 THEN 1 ELSE 10 * Pow10(n - 1)

\* index of the first character of s that is in cs, or 0
FirstIn(s, cs) ==
  IF \E i \in 1..Len(s) : s[i] \in cs
  THEN CHOOSE i \in 1..Len(s) : s[i] \in cs /\ \A j \in 1..(i - 1) : s[j] \notin cs
  ELSE 0

NoNumber == [tag |-> "none", neg |-> FALSE, num |-> 0, den |-> 1]

\* float(t) for a stripped text t: sign, then nan / inf / infinity, or a
\* decimal with optional fraction and exponent; anything else raises
ParseFloat(t) ==
  LET signed == t # <<>> /\ t[1] \in {"+", "-"}
      neg == t # <<>> /\ t[1] = "-"
      b == IF signed THEN Tail(t) ELSE t
      e == FirstIn(b, {"e", "E"})
      mant == IF e = 0 THEN b ELSE SubSeq(b, 1, e - 1)
      ex == IF e = 0 THEN <<>> ELSE SubSeq(b, e + 1, Len(b))
      exSigned == ex # <<>> /\ ex[1] \in {"+", "-"}
      exNeg == ex # <<>> /\ ex[1] = "-"
      exDigits == IF exSigned THEN Tail(ex) ELSE ex
      dot == FirstIn(mant, {"."})
      ip == IF dot = 0 THEN mant ELSE SubSeq(mant, 1, dot - 1)
      fp == IF dot = 0 THEN <<>> ELSE SubSeq(mant, dot + 1, Len(mant))
      fpLen == Len(SelectSeq(fp, IsDigit))
      exVal == IF e = 0 THEN 0 ELSE IF exNeg THEN 0 - DigitsVal(exDigits) ELSE DigitsVal(exDigits)
      shift == fpLen - exVal
  IN IF ToLower(b) = <<"n","a","n">>
     THEN [tag |-> "nan", neg |-> neg, num |-> 0, den |-> 1]
     ELSE IF ToLower(b) \in {<<"i","n","f">>, <<"i","n","f","i","n","i","t","y">>}
     THEN [tag |-> "inf", neg |-> neg, num |-> 0, den |-> 1]
     ELSE IF /\ (ip = <<>> \/ DigitRun(ip))
             /\ (fp = <<>> \/ DigitRun(fp))
             /\ ~(ip = <<>> /\ fp = <<>>)
             /\ (e = 0 \/ DigitRun(exDigits))
     THEN [tag |-> "num", neg |-> neg,
           num |-> DigitsVal(ip \o fp) * Pow10(0 - shift),
           den |-> Pow10(shift)]
     ELSE NoNumber

\* float(str(s).strip()), None on any exception
to_number_or_none(s) == ParseFloat(Strip(s))

\* Series.isna() on a column of to_number_or_none results
IsNa(v) == v.tag \in {"none", "nan"}

\* v > m for a number v (not NaN) and an integer-valued float m
Greater(v, m) ==
  IF v.tag = "inf" THEN ~v.neg
  ELSE IF v.neg THEN (0 - v.num) > m * v.den
  ELSE v.num > m * v.den

\* ---------------------------------------------------------------- emitter
\* str.replace("'", "''")
RECURSIVE DoubleQuotes(_)
DoubleQuotes(s) ==
  IF s = <<>> THEN <<>>
  ELSE IF Head(s) = "'" THEN <<"'", "'">> \o DoubleQuotes(Tail(s))
  ELSE <<Head(s)>> \o DoubleQuotes(Tail(s))

emit_yaml_line(key, value, indent, comment) ==
  LET qv == DoubleQuotes(value)
      line == Spaces(indent) \o key \o <<":", "'">> \o qv \o <<"'">>
  IN (IF comment # <<>> THEN line \o <<" ", "#">> \o comment ELSE line) \o <<"\n">>

\* ------------------------------------------------------------------ inputs
T_creditor == S(<<"c","r","e","d","i","t","o","r","A","c","c","o","u","n","t">>)

T_fourth == S(<<" ","F","o","u","r","t","h","P","a","r","t","y">>)

T_fourth_lc == S(<<"f","o","u","r","t","h","p","a","r","t","y">>)

T_bogus == S(<<"b","o","g","u","s">>)

Nines == <<"9","9","9","9","9","9","9","9","9","9","9","9","9">>

Row(t, i, p, c) == [type |-> t, id |-> i, paymentLimit |-> p, comment |-> c]

Blank == S(<<" ">>)

\* the rows a sheet is drawn from.  read_excel gives NaN for an empty cell
\* (and for a text among its default NA values, the empty text included), so
\* a cell that normalizes to empty holds whitespace
RowCandidates ==
  { Row(T_creditor, S(Nines), S(<<"4","'","2">>), S(<<"i","t","'","s">>)),
    Row(T_creditor, S(<<"4","2">>), S(<<"1","0">>), S(<<"n","o","t","e">>)),
    Row(T_creditor, Blank, S(<<"5","0","0">>), NaN),
    Row(T_fourth, S(Nines), S(<<"1","0","0",".","5">>), NaN),
    Row(T_fourth_lc, S(<<"1","2","3","4"," ","5","6","7","8","9","0","1","2","3">>),
        S(<<"1","0">>), S(<<"n","o","t","e">>)),
    Row(T_fourth, S(<<"1","2","3","4","5","6","7","8","9","0","1","2","3">>),
        S(<<"a","b","c">>), Blank),
    Row(T_fourth_lc, S(<<"1","2","3">>), NaN, Blank),
    Row(T_bogus, S(<<"4","'","2">>), S(<<"1","0">>), Blank),
    Row(T_bogus, Blank, Blank, Blank),
    Row(NaN, NaN, NaN, NaN),
    Row(Blank, Blank, Blank, Blank) }

\* the values --max-creditor and --max-fourth are drawn from (None: not given)
MaxChoices == {[given |-> FALSE, v |-> 0], [given |-> TRUE, v |-> 100]}

ArgChoices ==
  [ dedupe_accounts : BOOLEAN, dedupe_nzbn : BOOLEAN,
    require_numeric_paymentlimit : BOOLEAN,
    max_creditor : MaxChoices, max_fourth : MaxChoices ]

Sheets == UNION { [1..n -> RowCandidates] : n \in 0..MaxRows }

\* ------------------------------------------------------------------- state
VARIABLES
  args,          \* the parsed command line
  sheet,         \* the rows of the "data" sheet, as read_excel returns them
  df_raw,        \* the frame with excel_row and the normalized columns
  df,            \* df_raw without the blank rows
  cred,          \* the creditorAccount rows
  fourth,        \* the fourthParty rows
  error_rows,    \* the row-level errors, in the order the rules add them
  printed,       \* the detailed lines written to stderr
  report,        \* the CSV error report: written or not, and its rows
  output,        \* the YAML file: written or not, and its text
  exit_code,     \* -1 while running, else the process's exit status
  pc             \* the statement main() is at

vars == <<args, sheet, df_raw, df, cred, fourth, error_rows, printed, report,
          output, exit_code, pc>>

Init ==
  /\ args \in ArgChoices
  /\ sheet \in Sheets
  /\ df_raw = <<>>
  /\ df = <<>>
  /\ cred = <<>>
  /\ fourth = <<>>
  /\ error_rows = <<>>
  /\ printed = <<>>
  /\ report = [written |-> FALSE, rows |-> <<>>]
  /\ output = [written |-> FALSE, text |-> <<>>]
  /\ exit_code = -1
  /\ pc = "read_excel"

\* ---------------------------------------------------------- frame helpers
RECURSIVE Take(_, _)
\* frame[mask]: the rows whose mask entry is true, in order
Take(rows, mask) ==
  IF rows = <<>> THEN <<>>
  ELSE (IF Head(mask) THEN <<Head(rows)>> ELSE <<>>) \o Take(Tail(rows), Tail(mask))

\* a variant of Duplicated: keep="first", the first occurrence is not marked
Duplicated_KeepFirst(rows, col) ==
  [i \in 1..Len(rows) |-> \E j \in 1..(i - 1) : rows[j][col] = rows[i][col]]

\* DataFrame.duplicated(subset=[col], keep=False)
Duplicated(rows, col) ==
  [i \in 1..Len(rows) |-> \E j \in 1..Len(rows) : j # i /\ rows[j][col] = rows[i][col]]

\* DataFrame.drop_duplicates(subset=[col], keep="first")
DropDuplicates(rows, col) ==
  Take(rows, [i \in 1..Len(rows) |-> ~\E j \in 1..(i - 1) : rows[j][col] = rows[i][col]])

\* Series.str.fullmatch(r"\d{13}")
FullMatch13Digits(s) == Len(s) = NzbnDigits /\ \A i \in 1..Len(s) : IsDigit(s[i])

\* ------------------------------------------------------------- error rows
R_bad_type ==
  <<"i","n","v","a","l","i","d"," ","'","t","y","p","e","'"," ","(","m","u","s","t"," ","b","e"," ",
    "c","r","e","d","i","t","o","r","A","c","c","o","u","n","t"," ","o","r"," ",
    "f","o","u","r","t","h","P","a","r","t","y",")">>

R_bad_nzbn ==
  <<"i","n","v","a","l","i","d"," ","N","Z","B","N"," ","(","m","u","s","t"," ","b","e"," ",
    "1","3"," ","d","i","g","i","t","s",")">>

R_dup_nzbn == <<"d","u","p","l","i","c","a","t","e"," ","N","Z","B","N">>

R_dup_acct ==
  <<"d","u","p","l","i","c","a","t","e"," ","a","c","c","o","u","n","t","N","u","m","b","e","r">>

R_non_numeric ==
  <<"n","o","n","-","n","u","m","e","r","i","c"," ","p","a","y","m","e","n","t","L","i","m","i","t">>

\* f"paymentLimit > {m}"
R_over(m) == <<"p","a","y","m","e","n","t","L","i","m","i","t"," ",">"," ">> \o FloatStr(m)

\* the error dict of one row
ErrorOf(rr, reason) ==
  [ excel_row |-> rr.excel_row,
    type |-> IF rr.type_norm # <<>> THEN S(rr.type_norm)
             ELSE IF Truthy(rr.type) THEN rr.type ELSE S(<<>>),
    id |-> rr.id,
    paymentLimit |-> rr.paymentLimit,
    reason |-> reason ]

\* the rows add_errors(subdf, reason) appends to error_rows
add_errors(subdf, reason) == [i \in 1..Len(subdf) |-> ErrorOf(subdf[i], reason)]

\* ----------------------------------------------------------------- actions
\* df_raw = pd.read_excel(...); df_raw["excel_row"] = df_raw.index + 2
ReadExcel ==
  /\ pc = "read_excel"
  /\ df_raw' = [i \in 1..Len(sheet) |-> sheet[i] @@ [excel_row |-> (i - 1) + 2]]
  /\ pc' = "normalize"
  /\ UNCHANGED <<args, sheet, df, cred, fourth, error_rows, printed, report, output, exit_code>>

NormalizeRow(r) ==
  [ excel_row |-> r.excel_row,
    type |-> r.type,
    type_norm |-> VALID_TYPES(ToLower(normalize_str(r.type))),
    id |-> normalize_str(r.id),
    paymentLimit |-> normalize_str(r.paymentLimit),
    comment |-> normalize_str(r.comment) ]

\* Clean/normalize
Normalize ==
  /\ pc = "normalize"
  /\ df_raw' = [i \in 1..Len(df_raw) |-> NormalizeRow(df_raw[i])]
  /\ pc' = "split"
  /\ UNCHANGED <<args, sheet, df, cred, fourth, error_rows, printed, report, output, exit_code>>

\* all(v == "" for v in r.values) over type_norm, id, paymentLimit, comment
IsBlank(r) == r.type_norm = <<>> /\ r.id = <<>> /\ r.paymentLimit = <<>> /\ r.comment = <<>>

\* a variant of Split: the frame is renumbered after the blank rows are dropped
Split_Reindexed ==
  /\ pc = "split"
  /\ LET dropped == SelectSeq(df_raw, LAMBDA r : ~IsBlank(r))
         kept == [k \in 1..Len(dropped) |-> [dropped[k] EXCEPT !.excel_row = (k - 1) + 2]]
     IN /\ df' = kept
        /\ cred' = SelectSeq(kept, LAMBDA r : r.type_norm = CreditorAccount)
        /\ fourth' = SelectSeq(kept, LAMBDA r : r.type_norm = FourthParty)
  /\ pc' = "validate_types"
  /\ UNCHANGED <<args, sheet, df_raw, error_rows, printed, report, output, exit_code>>

\* Drop fully blank rows, then split by type
Split ==
  /\ pc = "split"
  /\ LET kept == SelectSeq(df_raw, LAMBDA r : ~IsBlank(r))
     IN /\ df' = kept
        /\ cred' = SelectSeq(kept, LAMBDA r : r.type_norm = CreditorAccount)
        /\ fourth' = SelectSeq(kept, LAMBDA r : r.type_norm = FourthParty)
  /\ pc' = "validate_types"
  /\ UNCHANGED <<args, sheet, df_raw, error_rows, printed, report, output, exit_code>>

\* Validate types
ValidateTypes ==
  /\ pc = "validate_types"
  /\ LET bad_type == SelectSeq(df, LAMBDA r : r.type_norm = <<>>)
     IN error_rows' = error_rows \o add_errors(bad_type, R_bad_type)
  /\ pc' = "validate_nzbn"
  /\ UNCHANGED <<args, sheet, df_raw, df, cred, fourth, printed, report, output, exit_code>>

\* a variant of NzbnErrors: duplicates are looked for on the identifier as
\* typed, not on the identifier without whitespace
NzbnErrors_VerbatimId(f) ==
  LET bad_nzbn == SelectSeq(f, LAMBDA r : ~FullMatch13Digits(r.nzbn))
      dup_nzbn == Take(f, Duplicated(f, "id"))
  IN add_errors(bad_nzbn, R_bad_nzbn) \o add_errors(dup_nzbn, R_dup_nzbn)

\* a variant of NzbnErrors: a row already reported as malformed is left out
\* of the duplicate rule
NzbnErrors_ShortCircuit(f) ==
  LET bad_nzbn == SelectSeq(f, LAMBDA r : ~FullMatch13Digits(r.nzbn))
      good == SelectSeq(f, LAMBDA r : FullMatch13Digits(r.nzbn))
      dup_nzbn == Take(good, Duplicated(good, "nzbn"))
  IN add_errors(bad_nzbn, R_bad_nzbn) \o add_errors(dup_nzbn, R_dup_nzbn)

\* the errors of the NZBN format rule, then of the NZBN duplicate rule
NzbnErrors(f) ==
  LET bad_nzbn == SelectSeq(f, LAMBDA r : ~FullMatch13Digits(r.nzbn))
      dup_nzbn == Take(f, Duplicated(f, "nzbn"))
  IN add_errors(bad_nzbn, R_bad_nzbn) \o add_errors(dup_nzbn, R_dup_nzbn)

\* NZBN format & duplicates
ValidateNzbn ==
  /\ pc = "validate_nzbn"
  /\ LET f == [i \in 1..Len(fourth) |-> fourth[i] @@ [nzbn |-> RemoveWs(fourth[i].id)]]
     IN /\ fourth' = f
        /\ error_rows' = error_rows \o NzbnErrors(f)
  /\ pc' = "validate_accounts"
  /\ UNCHANGED <<args, sheet, df_raw, df, cred, printed, report, output, exit_code>>

\* the errors of the accountNumber duplicate rule
AccountErrors(c) == add_errors(Take(c, Duplicated(c, "accountNumber")), R_dup_acct)

\* accountNumber duplicates
ValidateAccounts ==
  /\ pc = "validate_accounts"
  /\ LET c == [i \in 1..Len(cred) |-> cred[i] @@ [accountNumber |-> cred[i].id]]
     IN /\ cred' = c
        /\ error_rows' = error_rows \o AccountErrors(c)
  /\ pc' = "validate_limits"
  /\ UNCHANGED <<args, sheet, df_raw, df, fourth, printed, report, output, exit_code>>

\* the errors of the numeric rule, then of the ceiling rule, for one kind
LimitErrors(rows, require, max) ==
  LET bad_num == SelectSeq(rows, LAMBDA r : IsNa(r.pl_num))
      over == SelectSeq(rows, LAMBDA r : ~IsNa(r.pl_num) /\ Greater(r.pl_num, max.v))
  IN (IF require THEN add_errors(bad_num, R_non_numeric) ELSE <<>>)
     \o (IF max.given THEN add_errors(over, R_over(max.v)) ELSE <<>>)

\* frame["_pl_num"] = frame["paymentLimit"].map(to_number_or_none)
WithPlNum(rows) ==
  [i \in 1..Len(rows) |-> rows[i] @@ [pl_num |-> to_number_or_none(rows[i].paymentLimit)]]

\* paymentLimit numeric & thresholds
ValidateLimits ==
  /\ pc = "validate_limits"
  /\ IF args.require_numeric_paymentlimit \/ args.max_fourth.given \/ args.max_creditor.given
     THEN LET f == WithPlNum(fourth)
              c == WithPlNum(cred)
          IN /\ fourth' = f
             /\ cred' = c
             /\ error_rows' = error_rows
                  \o LimitErrors(f, args.require_numeric_paymentlimit, args.max_fourth)
                  \o LimitErrors(c, args.require_numeric_paymentlimit, args.max_creditor)
     ELSE UNCHANGED <<fourth, cred, error_rows>>
  /\ pc' = "check_errors"
  /\ UNCHANGED <<args, sheet, df_raw, df, printed, report, output, exit_code>>

\* ------------------------------------------------------------------ report
\* a variant of KeyLess: the sort key is the position alone
KeyLess_RowOnly(a, b) == a.excel_row < b.excel_row

\* the sort key (r["excel_row"], r["reason"]) of a is below that of b
KeyLess(a, b) ==
  \/ a.excel_row < b.excel_row
  \/ a.excel_row = b.excel_row /\ StrLess(a.reason, b.reason)

RECURSIVE InsertSorted(_, _)
\* e placed after every element whose key is not above its own
InsertSorted(e, sorted) ==
  IF sorted = <<>> THEN <<e>>
  ELSE IF KeyLess(e, Head(sorted)) THEN <<e>> \o sorted
  ELSE <<Head(sorted)>> \o InsertSorted(e, Tail(sorted))

RECURSIVE SortErrors(_)
\* sorted(rows, key=lambda r: (r["excel_row"], r["reason"])): a stable sort
SortErrors(rows) ==
  IF rows = <<>> THEN <<>>
  ELSE InsertSorted(rows[Len(rows)], SortErrors(SubSeq(rows, 1, Len(rows) - 1)))

\* a variant of Report: the report is made but the run goes on to the emitter
Report_NoExit ==
  /\ pc = "check_errors"
  /\ error_rows # <<>>
  /\ LET error_rows_sorted == SortErrors(error_rows)
     IN /\ printed' = error_rows_sorted
        /\ \E ok \in BOOLEAN :
             report' = [written |-> ok, rows |-> IF ok THEN error_rows_sorted ELSE <<>>]
  /\ pc' = "emit"
  /\ UNCHANGED <<args, sheet, df_raw, df, cred, fourth, error_rows, output, exit_code>>

\* If any error: print the sorted detailed list, write the CSV (or warn), exit 3
Report ==
  /\ pc = "check_errors"
  /\ error_rows # <<>>
  /\ LET error_rows_sorted == SortErrors(error_rows)
     IN /\ printed' = error_rows_sorted
        /\ \E ok \in BOOLEAN :
             report' = [written |-> ok, rows |-> IF ok THEN error_rows_sorted ELSE <<>>]
  /\ exit_code' = 3
  /\ pc' = "exit"
  /\ UNCHANGED <<args, sheet, df_raw, df, cred, fourth, error_rows, output>>

\* Optional de-dupe (only runs when there are no errors)
Dedupe ==
  /\ pc = "check_errors"
  /\ error_rows = <<>>
  /\ fourth' = IF args.dedupe_nzbn /\ fourth # <<>>
               THEN DropDuplicates(fourth, "nzbn") ELSE fourth
  /\ cred' = IF args.dedupe_accounts /\ cred # <<>>
             THEN DropDuplicates(cred, "accountNumber") ELSE cred
  /\ pc' = "emit"
  /\ UNCHANGED <<args, sheet, df_raw, df, error_rows, printed, report, output, exit_code>>

K_accountNumber == <<"a","c","c","o","u","n","t","N","u","m","b","e","r">>

K_nzbn == <<"n","z","b","n">>

K_paymentLimit == <<"p","a","y","m","e","n","t","L","i","m","i","t">>

\* the lines one row adds: none when its key is empty
EntryLines(keyName, key, r) ==
  IF key = <<>> THEN <<>>
  ELSE << <<" ", " ", "-", " ">> \o LStrip(emit_yaml_line(keyName, key, 4, <<>>)),
          emit_yaml_line(K_paymentLimit, r.paymentLimit, 6, r.comment) >>

RECURSIVE SectionLines(_, _, _)
SectionLines(keyName, col, rows) ==
  IF rows = <<>> THEN <<>>
  ELSE EntryLines(keyName, Head(rows)[col], Head(rows)) \o SectionLines(keyName, col, Tail(rows))

\* a variant of YamlLines: the fourthParties entries carry the identifier
\* as typed
YamlLines_RawId(c, f) ==
  << <<"c","r","e","d","i","t","o","r","A","c","c","o","u","n","t","s",":","\n">> >>
  \o SectionLines(K_accountNumber, "accountNumber", c)
  \o << <<"f","o","u","r","t","h","P","a","r","t","i","e","s",":","\n">> >>
  \o SectionLines(K_nzbn, "id", f)

\* the list `lines` of main()
YamlLines(c, f) ==
  << <<"c","r","e","d","i","t","o","r","A","c","c","o","u","n","t","s",":","\n">> >>
  \o SectionLines(K_accountNumber, "accountNumber", c)
  \o << <<"f","o","u","r","t","h","P","a","r","t","i","e","s",":","\n">> >>
  \o SectionLines(K_nzbn, "nzbn", f)

\* Emit YAML: f.write("".join(lines))
Emit ==
  /\ pc = "emit"
  /\ output' = [written |-> TRUE, text |-> Concat(YamlLines(cred, fourth))]
  /\ exit_code' = 0
  /\ pc' = "exit"
  /\ UNCHANGED <<args, sheet, df_raw, df, cred, fourth, error_rows, printed, report>>

Next ==
  \/ ReadExcel
  \/ Normalize
  \/ Split
  \/ ValidateTypes
  \/ ValidateNzbn
  \/ ValidateAccounts
  \/ ValidateLimits
  \/ Report
  \/ Dedupe
  \/ Emit

Spec == Init /\ [][Next]_vars

\* ------------------------------------------------- reading a document back
RECURSIVE SplitLines(_, _)
\* the lines of a text, each without its line break; cur is the line so far
SplitLines(text, cur) ==
  IF text = <<>> THEN (IF cur = <<>> THEN <<>> ELSE <<cur>>)
  ELSE IF Head(text) = "\n" THEN <<cur>> \o SplitLines(Tail(text), <<>>)
  ELSE SplitLines(Tail(text), Append(cur, Head(text)))

RECURSIVE Unquote(_)
\* the value of a quoted scalar, s being what follows its opening quote:
\* a doubled quote is one quote, a single one ends the value
Unquote(s) ==
  IF s = <<>> THEN <<>>
  ELSE IF Head(s) = "'"
       THEN IF Len(s) >= 2 /\ s[2] = "'"
            THEN <<"'">> \o Unquote(SubSeq(s, 3, Len(s)))
            ELSE <<>>
       ELSE <<Head(s)>> \o Unquote(Tail(s))

\* a line split at its key: [key, quoted, value]
ParseLine(line) ==
  LET l0 == LStrip(line)
      l == IF Len(l0) >= 2 /\ l0[1] = "-" /\ l0[2] = " " THEN SubSeq(l0, 3, Len(l0)) ELSE l0
      c == FirstIn(l, {":"})
      rest == SubSeq(l, c + 1, Len(l))
  IN [ key |-> SubSeq(l, 1, c - 1),
       quoted |-> c > 0 /\ rest # <<>> /\ rest[1] = "'",
       value |-> IF c > 0 /\ rest # <<>> /\ rest[1] = "'" THEN Unquote(Tail(rest)) ELSE <<>> ]

RECURSIVE Entries(_, _)
\* the key/value pairs of the parsed lines, each with the section it is under
Entries(parsed, section) ==
  IF parsed = <<>> THEN <<>>
  ELSE IF ~Head(parsed).quoted THEN Entries(Tail(parsed), Head(parsed).key)
  ELSE <<[section |-> section, key |-> Head(parsed).key, value |-> Head(parsed).value]>>
       \o Entries(Tail(parsed), section)

ParseDocument(text) ==
  LET ls == SplitLines(text, <<>>)
  IN Entries([i \in 1..Len(ls) |-> ParseLine(ls[i])], <<>>)

Sec_creditor == <<"c","r","e","d","i","t","o","r","A","c","c","o","u","n","t","s">>

Sec_fourth == <<"f","o","u","r","t","h","P","a","r","t","i","e","s">>

\* ------------------------------------------------- the rules, row by row
Rows == 1..Len(sheet)

\* the sheet rows by 1-based position, normalized, with the duplicate key of
\* the row's kind and the parsed limit
NormSheet ==
  [i \in Rows |->
     LET r == NormalizeRow(sheet[i] @@ [excel_row |-> i + 1])
     IN r @@ [ retained |-> ~IsBlank(r),
               key |-> IF r.type_norm = FourthParty THEN RemoveWs(r.id) ELSE r.id,
               num |-> to_number_or_none(r.paymentLimit) ]]

\* the ceiling args gives for a kind
CeilingOf(kind) == IF kind = FourthParty THEN args.max_fourth ELSE args.max_creditor

\* the reasons row i of the normalized sheet n breaks, each rule on its own
ReasonsOf(n, i) ==
  LET r == n[i]
      known == r.type_norm # <<>>
      max == CeilingOf(r.type_norm)
  IN IF ~r.retained THEN {}
     ELSE (IF ~known THEN {R_bad_type} ELSE {})
       \cup (IF r.type_norm = FourthParty /\ ~FullMatch13Digits(r.key) THEN {R_bad_nzbn} ELSE {})
       \cup (IF known /\ \E j \in DOMAIN n :
                           j # i /\ n[j].retained /\ n[j].type_norm = r.type_norm /\ n[j].key = r.key
             THEN {IF r.type_norm = FourthParty THEN R_dup_nzbn ELSE R_dup_acct} ELSE {})
       \cup (IF known /\ args.require_numeric_paymentlimit /\ IsNa(r.num)
             THEN {R_non_numeric} ELSE {})
       \cup (IF known /\ max.given /\ ~IsNa(r.num) /\ Greater(r.num, max.v)
             THEN {R_over(max.v)} ELSE {})

\* the (position in the sheet, reason) pairs of a run
BreaksOf(n) == UNION {{<<i, reason>> : reason \in ReasonsOf(n, i)} : i \in DOMAIN n}

Breaks == BreaksOf(NormSheet)

Validated == pc \in {"check_errors", "emit", "exit"}

\* the error rows of a given reason
ErrorsWith(reason) == SelectSeq(error_rows, LAMBDA e : e.reason = reason)

\* ------------------------------------------------------------------ claims
\* C1: all-or-nothing output.  The document is written only when
\* error_rows is empty; a run with a non-empty error_rows ends with exit
\* status 3 and no byte of the document written, and a run with an empty
\* error_rows ends with the document written.
C1_AllOrNothing ==
  /\ output.written => error_rows = <<>> /\ exit_code = 0
  /\ ~output.written => output.text = <<>>
  /\ pc = "exit" /\ error_rows # <<>> => exit_code = 3 /\ ~output.written
  /\ pc = "exit" /\ error_rows = <<>> => output.written

\* a failed run in which some retained row of a recognized kind has no error
C1_Witness ==
  /\ pc = "exit" /\ exit_code = 3 /\ ~output.written
  /\ \E i \in 1..Len(cred) : \A k \in 1..Len(error_rows) : error_rows[k].excel_row # cred[i].excel_row

\* C10: no short-circuiting.  Once validation is over, error_rows holds, for
\* every retained row and every rule the row breaks (each rule taken on its
\* own), exactly one error with the row's position and the rule's reason,
\* and nothing else.
C10_NoShortCircuit ==
  pc = "check_errors" =>
    LET expected == Breaks
    IN /\ {<<error_rows[k].excel_row - 1, error_rows[k].reason>> : k \in 1..Len(error_rows)} = expected
       /\ Len(error_rows) = Cardinality(expected)

\* a FourthParty row reported both as malformed and as repeated
C10_Witness ==
  /\ Validated
  /\ \E a, b \in 1..Len(error_rows) :
       /\ error_rows[a].excel_row = error_rows[b].excel_row
       /\ error_rows[a].reason = R_bad_nzbn
       /\ error_rows[b].reason = R_dup_nzbn

\* the positions (in the sheet) of the rows of a frame
Positions(frame) == [k \in 1..Len(frame) |-> frame[k].excel_row - 1]

RECURSIVE PositionsWhere(_, _, _)
\* the positions i..Len(n) of the rows of kind `kind` that are retained
PositionsWhere(n, kind, i) ==
  IF i > Len(n) THEN <<>>
  ELSE (IF n[i].retained /\ n[i].type_norm = kind THEN <<i>> ELSE <<>>)
       \o PositionsWhere(n, kind, i + 1)

\* the key a duplicate error of a kind is about
ErrorKey(e, kind) == IF kind = FourthParty THEN RemoveWs(e.id) ELSE e.id

DupReason(kind) == IF kind = FourthParty THEN R_dup_nzbn ELSE R_dup_acct

\* C2: duplicate detection flags every occurrence.  For each kind and each
\* key of a retained row of that kind (FourthParty: the identifier without
\* whitespace; CreditorAccount: the identifier as it is), a key that occurs
\* N >= 2 times has exactly N duplicate errors of that kind, one at the
\* position of each occurrence, and a key that occurs once has none.
C2_DuplicatesAllFlagged ==
  pc = "check_errors" =>
    LET n == NormSheet
    IN \A kind \in {FourthParty, CreditorAccount} :
         \A i \in DOMAIN n :
           n[i].retained /\ n[i].type_norm = kind =>
             LET occ == {j \in DOMAIN n : n[j].retained /\ n[j].type_norm = kind /\ n[j].key = n[i].key}
                 errs == SelectSeq(error_rows,
                           LAMBDA e : e.reason = DupReason(kind) /\ ErrorKey(e, kind) = n[i].key)
             IN IF Cardinality(occ) >= 2
                THEN /\ Len(errs) = Cardinality(occ)
                     /\ {errs[k].excel_row - 1 : k \in 1..Len(errs)} = occ
                ELSE errs = <<>>

\* two FourthParty rows flagged as duplicates of each other although their
\* identifiers differ in whitespace
C2_Witness ==
  /\ pc = "check_errors"
  /\ \E a, b \in 1..Len(error_rows) :
       /\ error_rows[a].reason = R_dup_nzbn /\ error_rows[b].reason = R_dup_nzbn
       /\ error_rows[a].id # error_rows[b].id

\* some key is repeated among the retained rows of one kind
RepeatedKey(n) ==
  \E i, j \in DOMAIN n :
    /\ i # j /\ n[i].retained /\ n[j].retained
    /\ n[i].type_norm # <<>> /\ n[i].type_norm = n[j].type_norm /\ n[i].key = n[j].key

\* the frame of a kind as it stands before the de-dupe step
FrameOf(n, kind) ==
  LET ps == PositionsWhere(n, kind, 1)
  IN [k \in 1..Len(ps) |-> n[ps[k]] @@ [accountNumber |-> n[ps[k]].id, nzbn |-> n[ps[k]].key]]

ValuesOf(entries, section, key) ==
  LET es == SelectSeq(entries, LAMBDA e : e.section = section /\ e.key = key)
  IN [k \in 1..Len(es) |-> es[k].value]

\* C5: in a run that emits a document, the nzbn of every entry of the
\* fourthParties section is 13 digits and nothing else, and these values
\* are, in order, the identifiers of the FourthParty rows with whitespace
\* removed; a FourthParty row whose identifier without whitespace is not 13
\* digits makes the run fail.
C5_NzbnThirteenDigits ==
  pc = "exit" =>
    LET n == NormSheet
        ps == PositionsWhere(n, FourthParty, 1)
    IN /\ output.written =>
            LET vs == ValuesOf(ParseDocument(output.text), Sec_fourth, K_nzbn)
            IN /\ \A k \in 1..Len(vs) : FullMatch13Digits(vs[k])
               /\ vs = [k \in 1..Len(ps) |-> RemoveWs(n[ps[k]].id)]
       /\ (\E k \in 1..Len(ps) : ~FullMatch13Digits(RemoveWs(n[ps[k]].id))) =>
            exit_code = 3 /\ ~output.written

\* a document with two fourthParties entries, one from an identifier that
\* held whitespace
C5_Witness ==
  /\ pc = "exit" /\ output.written
  /\ Len(fourth) = 2
  /\ \E k \in 1..Len(fourth) : fourth[k].id # fourth[k].nzbn

\* C7: the position of an error is the row's 1-based position in the sheet
\* plus one (the header is row 1 of the spreadsheet): the row at that place
\* of the sheet is retained, has the error's identifier and limit and breaks
\* the error's rule, whatever blank rows precede it; the rows of df, cred
\* and fourth keep the position they were read at.
C7_PositionIsSheetRowPlusOne ==
  LET n == NormSheet
      AtPlace(frame) ==
        \A k \in 1..Len(frame) :
          LET i == frame[k].excel_row - 1
          IN i \in DOMAIN n /\ n[i].id = frame[k].id /\ n[i].paymentLimit = frame[k].paymentLimit
             /\ n[i].comment = frame[k].comment /\ n[i].type_norm = frame[k].type_norm
  IN /\ \A k \in 1..Len(error_rows) :
          LET e == error_rows[k]
              i == e.excel_row - 1
          IN /\ i \in DOMAIN n
             /\ n[i].retained
             /\ e.id = n[i].id /\ e.paymentLimit = n[i].paymentLimit
             /\ e.reason \in ReasonsOf(n, i)
     /\ pc \notin {"read_excel", "normalize", "split"} => AtPlace(df) /\ AtPlace(cred) /\ AtPlace(fourth)

\* a row with two errors at one position, below a blank row that was dropped
C7_Witness ==
  /\ pc = "check_errors"
  /\ \E a, b \in 1..Len(error_rows) :
       /\ a # b
       /\ error_rows[a].excel_row = error_rows[b].excel_row
       /\ \E j \in 1..(error_rows[a].excel_row - 2) : ~NormSheet[j].retained

\* C7 as stated: the position of an error is the row's 1-based position in
\* the input table
C7_PositionIsTableIndex ==
  LET n == NormSheet
  IN \A k \in 1..Len(error_rows) :
       LET e == error_rows[k]
           i == e.excel_row
       IN /\ i \in DOMAIN n
          /\ n[i].retained
          /\ e.id = n[i].id /\ e.paymentLimit = n[i].paymentLimit
          /\ e.reason \in ReasonsOf(n, i)

\* the number of times e occurs in a sequence
Count(seq, e) == Cardinality({k \in 1..Len(seq) : seq[k] = e})

\* C8: on validation failure the detailed list holds every error of the run
\* as often as error_rows does, in ascending order of position and, at one
\* position, of reason text by code point; the CSV report, when it could be
\* written, holds the same list in the same order.
C8_ReportSorted ==
  pc = "exit" /\ exit_code = 3 =>
    /\ Len(printed) = Len(error_rows)
    /\ \A k \in 1..Len(error_rows) : Count(printed, error_rows[k]) = Count(error_rows, error_rows[k])
    /\ \A k \in 1..Len(error_rows) : Count(error_rows, error_rows[k]) = 1
    /\ \A k \in 1..(Len(printed) - 1) :
         \/ printed[k].excel_row < printed[k + 1].excel_row
         \/ /\ printed[k].excel_row = printed[k + 1].excel_row
            /\ (printed[k].reason = printed[k + 1].reason \/ StrLess(printed[k].reason, printed[k + 1].reason))
    /\ report.written => report.rows = printed

\* a failed run whose errors were not found in report order, with the CSV
\* written
C8_Witness ==
  /\ pc = "exit" /\ exit_code = 3
  /\ printed # error_rows
  /\ report.written
  /\ \E k \in 1..(Len(printed) - 1) : printed[k].excel_row = printed[k + 1].excel_row

\* C3 as stated: a row is dropped without a trace exactly when its type
\* text, identifier, limit text and comment all normalize to empty, and
\* every other row whose type label is not recognized has exactly one
\* "invalid type" error.
C3_DroppedIffAllEmpty ==
  pc = "check_errors" =>
    \A i \in Rows :
      LET allEmpty == /\ normalize_str(sheet[i].type) = <<>>
                      /\ normalize_str(sheet[i].id) = <<>>
                      /\ normalize_str(sheet[i].paymentLimit) = <<>>
                      /\ normalize_str(sheet[i].comment) = <<>>
          inDf == \E k \in 1..Len(df) : df[k].excel_row = i + 1
          errs == SelectSeq(error_rows, LAMBDA e : e.excel_row = i + 1)
      IN /\ (~inDf /\ errs = <<>>) <=> allEmpty
         /\ ~allEmpty /\ VALID_TYPES(ToLower(normalize_str(sheet[i].type))) = <<>> =>
              Len(SelectSeq(errs, LAMBDA e : e.reason = R_bad_type)) = 1

\* C6 as stated: in a run without errors no row that reaches the emitter has
\* an empty primary key, and every retained row of a recognized kind is one
\* entry of the document.
C6_EmptyKeySkipUnreachable ==
  pc = "exit" /\ error_rows = <<>> =>
    LET n == NormSheet
        entries == ParseDocument(output.text)
    IN /\ \A k \in 1..Len(cred) : cred[k].accountNumber # <<>>
       /\ \A k \in 1..Len(fourth) : fourth[k].nzbn # <<>>
       /\ Len(ValuesOf(entries, Sec_creditor, K_accountNumber))
            = Len(PositionsWhere(n, CreditorAccount, 1))
       /\ Len(ValuesOf(entries, Sec_fourth, K_nzbn)) = Len(PositionsWhere(n, FourthParty, 1))

RECURSIVE RecordEntries(_, _, _, _)
\* the key and paymentLimit pairs of the records of a frame, in order
RecordEntries(frame, section, keyName, col) ==
  IF frame = <<>> THEN <<>>
  ELSE << [section |-> section, key |-> keyName, value |-> Head(frame)[col]],
          [section |-> section, key |-> K_paymentLimit, value |-> Head(frame).paymentLimit] >>
       \o RecordEntries(Tail(frame), section, keyName, col)

\* C9 as stated: the document of a run without errors, read back, gives the
\* key and the limit text of every accepted record, the creditorAccounts
\* section first, in input order.
C9_RoundTrip ==
  pc = "exit" /\ output.written =>
    ParseDocument(output.text)
      = RecordEntries(cred, Sec_creditor, K_accountNumber, "accountNumber")
        \o RecordEntries(fourth, Sec_fourth, K_nzbn, "nzbn")

\* what does hold of the emitter: the records whose key is not empty are
\* read back exactly, quotes and annotations included
RoundTripOfKeyedRecords ==
  pc = "exit" /\ output.written =>
    ParseDocument(output.text)
      = RecordEntries(SelectSeq(cred, LAMBDA r : r.accountNumber # <<>>),
                      Sec_creditor, K_accountNumber, "accountNumber")
        \o RecordEntries(SelectSeq(fourth, LAMBDA r : r.nzbn # <<>>), Sec_fourth, K_nzbn, "nzbn")

====
